---- MODULE Spec2Model ----
(***************************************************************************)
(* Model of the itinerary worker (src/src/index.js): the request router    *)
(* (POST /generate, GET /status/{jobId}), the background generation        *)
(* pipeline (processItinerary, callOpenAI) and the record store it writes. *)
(*                                                                         *)
(* The record store and the generation service are external: every call to *)
(* them either returns or throws, and the model draws both outcomes.       *)
(* A store write is atomic: it is applied and returns, or it throws and    *)
(* leaves the record as it was.                                            *)
(***************************************************************************)
EXTENDS Integers, Sequences, FiniteSets, TLC

\* ------------------------------------------------------------------ bounds
MaxJobs  == 2     \* accepted POST /generate requests (pipelines started)
MaxObserved == 1  \* the same, in the runs that record every response
NumTimes == 1     \* distinct values Date.now() returns to generateJobId
NumRands == 2     \* distinct suffixes Math.random() gives generateJobId
MaxDays  == 1     \* longest itinerary the generation service returns
MaxChecks == 2    \* checkStatus requests of the status page in flight at once

\* ------------------------------------------------- JavaScript / JSON values
\* A value carries its JavaScript type; text is kept in str, a number as its
\* whole part and its tenths digit (1.5 is int 1, frac 5).
Undefined == [type |-> "undefined"]
Null      == [type |-> "null"]
Str(s)    == [type |-> "string", str |-> s]
Num(i, f) == [type |-> "number", int |-> i, frac |-> f]

\* FieldValue.serverTimestamp(): the store's time when it applies the write;
\* the time of a write is named by the run and the write it is, <<p, "set">>
Timestamp(w) == [type |-> "timestamp", t |-> w]

\* !v is false exactly for these (index.js:201, 110, 260)
Truthy(v) ==
    CASE v.type = "undefined" -> FALSE
      [] v.type = "null"      -> FALSE
      [] v.type = "string"    -> v.str # ""
      [] v.type = "number"    -> ~(v.int = 0 /\ v.frac = 0)
      [] OTHER                -> TRUE

\* ------------------------------------------------------ schemas (zod, 4-24)
IsString(v) == v.type = "string"
IsNumber(v) == v.type = "number"

\* ActivitySchema: three fields, each z.string() (any string, the empty one too)
ActivitySchema(a) ==
    IsString(a.time) /\ IsString(a.description) /\ IsString(a.location)

\* DaySchema: day a number, theme a string, activities an array of activities
DaySchema(d) ==
    /\ IsNumber(d.day)
    /\ IsString(d.theme)
    /\ \A i \in 1..Len(d.activities) : ActivitySchema(d.activities[i])

\* ItinerarySchema.parse(itineraryData) succeeds; status, createdAt,
\* completedAt and error are set by processItinerary to values that pass
ItinerarySchema(data) ==
    /\ data.status \in {"completed", "processing", "failed"}
    /\ IsString(data.destination)
    /\ IsNumber(data.durationDays)
    /\ data.itinerary.type = "array"
    /\ \A i \in 1..Len(data.itinerary.items) : DaySchema(data.itinerary.items[i])

\* ----------------------------------------------------------- identifiers
Times == 1..NumTimes
Rands == 1..NumRands

\* 'job_' + Date.now() + '_' + Math.random().toString(36).substr(2, 9):
\* the identifier is the pair of the two draws, nothing makes it unused
generateJobId(now, rnd) == <<now, rnd>>

JobIds == {generateJobId(t, r) : t \in Times, r \in Rands}

\* the empty identifier segment of the path /status/
EmptySegment == <<>>

\* ------------------------------------------------------ request bodies
\* what request.json() yields (index.js:199): the JSON value null, or an
\* object whose two fields are drawn from these sets
Body(d, n) == [type |-> "object", destination |-> d, durationDays |-> n]
Durations ==
    {Undefined, Str("three"), Num(-1, 0), Num(0, 0), Num(1, 0), Num(1, 5),
     Num(31, 0)}
Bodies ==
    {Null, Body(Undefined, Num(1, 0)), Body(Str(""), Num(1, 0)),
     Body(Str(""), Num(0, 0))} \cup
    {Body(Str("Paris"), n) : n \in Durations}

\* body.destination / body.durationDays; reading a property of null throws
ThrowsOnAccess(body) == body.type = "null"

\* index.js:201  !body.destination || !body.durationDays
MissingFields(body) == ~Truthy(body.destination) \/ ~Truthy(body.durationDays)

\* index.js:213  typeof !== 'number' || < 1 || > 30
LessThan(n, k)    == n.int < k
GreaterThan(n, k) == n.int > k \/ (n.int = k /\ n.frac > 0)
MinDays == 1
MaxDurationDays == 30
BadDuration(body) ==
    \/ ~IsNumber(body.durationDays)
    \/ LessThan(body.durationDays, MinDays)
    \/ GreaterThan(body.durationDays, MaxDurationDays)

\* ------------------------------------------- generation service responses
GoodActivity  == [time |-> Str("Morning"), description |-> Str("walk"),
                  location |-> Str("park")]
BlankActivity == [time |-> Str(""), description |-> Str("walk"),
                  location |-> Str("park")]
BadActivity   == [time |-> Str("Morning"), description |-> Str("walk"),
                  location |-> Num(7, 0)]
Day(n, acts)  == [day |-> Num(n, 0), theme |-> Str("theme"), activities |-> acts]

RECURSIVE GoodDays(_)
GoodDays(n) ==
    IF n = 0 THEN <<>>
    ELSE Append(GoodDays(n - 1),
                Day(n, <<GoodActivity, GoodActivity, GoodActivity>>))

Array(items) == [type |-> "array", items |-> items]

\* the values JSON.parse(content) can return to processItinerary (index.js:116)
Payloads ==
    {Null, [type |-> "object", itinerary |-> Undefined]} \cup
    {[type |-> "object", itinerary |-> Array(GoodDays(n))] : n \in 0..MaxDays} \cup
    {[type |-> "object", itinerary |-> Array(<<Day(1, acts)>>)] :
        acts \in {<<GoodActivity, BlankActivity>>,
                  <<GoodActivity, GoodActivity, BadActivity>>}}

\* the failures one attempt of callOpenAI can end in (index.js:79-119):
\* the three it throws itself, and what fetch, response.json() or
\* data.choices[0] throw (no connection, a body that is not JSON, no choices)
ErrHttp      == "OpenAI API error"
ErrNoContent == "No content received from OpenAI"
ErrBadJson   == "Invalid JSON response from OpenAI"
ErrTransport == "fetch failed"
CallErrors   == {ErrHttp, ErrNoContent, ErrBadJson, ErrTransport}

\* what one attempt ends in: an error thrown inside the try block of
\* callOpenAI, or the parsed value it returns
Thrown(message) == [type |-> "error", message |-> message]
CallOutcomes == {Thrown(m) : m \in CallErrors} \cup Payloads

\* failures of the later steps of processItinerary
ErrTypeError == "Cannot read properties of null (reading 'itinerary')"
ErrZod       == "ZodError"
ErrStore     == "record store unavailable"

retries == 3

\* Math.pow(2, attempt) * 1000  (index.js:129)
RECURSIVE Pow2(_)
Pow2(n) == IF n = 0 THEN 1 ELSE 2 * Pow2(n - 1)
BackoffDelay(attempt) == Pow2(attempt) * 1000

\* ------------------------------------------------------------- the state
VARIABLES
    store,   \* the 'itineraries' collection: job identifier -> document
    pipes,   \* the processItinerary runs handed to ctx.waitUntil, in order
    resp,    \* the request fetch handled in this step and its response
    observe, \* whether resp is recorded in this run (it never changes)
    polled,  \* the accepted jobs whose status a client has asked for since
             \* their 202 response (kept in the runs that record resp)
    page     \* the status page: its variables, timers and requests in flight

vars == <<store, pipes, resp, observe, polled, page>>

\* the status codes the router answers with (index.js:249, 205, 286, 346, 296)
AcceptedStatus == 202
BadRequestStatus == 400
NotFoundStatus == 404
InternalErrorStatus == 500
OkStatus == 200

NoDoc  == [type |-> "nodoc"]
NoData == [type |-> "nodata"]

\* ----------------------------------------------------- record store (admin)
\* (variant: the set is not awaited and has not reached the store yet)
SetNotAwaited(st, id, doc) == st

\* doc(id).set(data): writes the whole document, whether or not one exists
Set(st, id, doc) == [st EXCEPT ![id] = doc]

\* (variant: the update is applied to every document of the collection)
UpdateCollection(st, id, patch) ==
    [i \in DOMAIN st |->
        IF st[i] = NoDoc THEN st[i]
        ELSE [f \in DOMAIN st[i] |->
                IF f \in DOMAIN patch THEN patch[f] ELSE st[i][f]]]

\* doc(id).update(patch): replaces the fields the patch names, keeps the rest
Update(st, id, patch) ==
    [st EXCEPT ![id] =
        [f \in DOMAIN @ |-> IF f \in DOMAIN patch THEN patch[f] ELSE @[f]]]

\* ------------------------------------------------------ POST /generate data
\* (variant: a job is created with a status of its own, before processing)
InitialRecordQueued(body, w) ==
    [status       |-> "queued",
     destination  |-> body.destination,
     durationDays |-> body.durationDays,
     createdAt    |-> Timestamp(w),
     completedAt  |-> Null,
     itinerary    |-> <<>>,
     error        |-> Null,
     updatedAt    |-> Undefined]

\* the document written at index.js:233-241 (no updatedAt field yet)
InitialRecord(body, w) ==
    [status       |-> "processing",
     destination  |-> body.destination,
     durationDays |-> body.durationDays,
     createdAt    |-> Timestamp(w),
     completedAt  |-> Null,
     itinerary    |-> <<>>,
     error        |-> Null,
     updatedAt    |-> Undefined]

\* (variant: processItinerary is handed an identifier generated anew)
NewPipeOtherId(jobId, body, initOk) ==
    [jobId        |-> generateJobId(jobId[1], (jobId[2] % NumRands) + 1),
     destination  |-> body.destination,
     durationDays |-> body.durationDays,
     pc           |-> IF initOk THEN "mark" ELSE "rejected",
     attempt      |-> 0,
     calls        |-> 0,
     okAt         |-> 0,
     delays       |-> <<>>,
     timer        |-> 0,
     data         |-> NoData,
     err          |-> "",
     caught       |-> "",
     writes       |-> <<>>,
     storeFailed  |-> FALSE,
     http         |-> AcceptedStatus]

\* the run created by the call processItinerary(jobId, ...) at index.js:243.
\* Lines 136-140 run at once, before the first await: when they throw, the
\* promise is rejected and no line of the try block is ever reached.
NewPipe(jobId, body, initOk) ==
    [jobId        |-> jobId,
     destination  |-> body.destination,
     durationDays |-> body.durationDays,
     pc           |-> IF initOk THEN "mark" ELSE "rejected",
     attempt      |-> 0,
     calls        |-> 0,
     okAt         |-> 0,
     delays       |-> <<>>,
     timer        |-> 0,
     data         |-> NoData,
     err          |-> "",
     caught       |-> "",
     writes       |-> <<>>,
     storeFailed  |-> FALSE,
     http         |-> AcceptedStatus]

\* ------------------------------------------------------------ responses
\* the headers of the OPTIONS response (index.js:181-185)
PreflightHeaders ==
    [h \in {"Access-Control-Allow-Origin", "Access-Control-Allow-Methods",
            "Access-Control-Allow-Headers"} |->
        CASE h = "Access-Control-Allow-Origin"  -> "*"
          [] h = "Access-Control-Allow-Methods" -> "GET, POST, OPTIONS"
          [] h = "Access-Control-Allow-Headers" -> "Content-Type"]

\* corsHeaders (index.js:189-193)
corsHeaders ==
    [h \in {"Access-Control-Allow-Origin", "Access-Control-Allow-Methods",
            "Access-Control-Allow-Headers"} |->
        CASE h = "Access-Control-Allow-Origin"  -> "*"
          [] h = "Access-Control-Allow-Methods" -> "GET, POST, OPTIONS"
          [] h = "Access-Control-Allow-Headers" -> "Content-Type"]

\* { 'Content-Type': 'application/json', ...corsHeaders }
JsonHeaders(cors) ==
    [h \in {"Content-Type"} \cup DOMAIN cors |->
        IF h \in DOMAIN cors THEN cors[h] ELSE "application/json"]

\* (variant: the response is built without ...corsHeaders)
ResponseNoCors(route, input, status, body, fault) ==
    [route |-> route, input |-> input, status |-> status, body |-> body,
     fault |-> fault, headers |-> JsonHeaders(<<>>), reads |-> 0,
     first |-> FALSE]

\* new Response(JSON.stringify(body), {status, headers}): every response of
\* the try block and of its catch clause is built this way
Response(route, input, status, body, fault) ==
    [route |-> route, input |-> input, status |-> status, body |-> body,
     fault |-> fault, headers |-> JsonHeaders(corsHeaders), reads |-> 0,
     first |-> FALSE]

ErrorBody(msg) == [error |-> msg]

\* a step of the pipeline handles no request
NoRequest == Response("none", Null, OkStatus, Null, "none")


\* ------------------------------------------- the status page (App.svelte)
\* The page is a client of GET /status/{jobId}; what it receives is drawn
\* from every reply the router, or the network, can give it.
backend == <<store, pipes, resp, observe, polled>>

\* the text of the Job ID field, and jobId.trim()
JobIdTexts == {"", " ", "job_1_1"}
Trim(text) == IF text = " " THEN "" ELSE text

\* what await fetch(...) and await response.json() give the page: a response
\* with its ok flag and parsed body, or an exception
Reply(ok, status, error) ==
    [kind |-> "response", ok |-> ok, status |-> status, error |-> error]
NetworkError == [kind |-> "throw", ok |-> FALSE, status |-> "", error |-> "fetch"]
NoReply      == [kind |-> "none", ok |-> FALSE, status |-> "", error |-> ""]
Replies ==
    {Reply(TRUE, s, "") : s \in {"processing", "completed", "failed"}} \cup
    {Reply(FALSE, "", "Job not found"),
     Reply(FALSE, "", "Failed to fetch job status"),
     NetworkError}

\* setTimeout(poll, 2000)
PollInterval == 2000

\* the page when it is mounted (App.svelte:5-9): no timer and no request
PageInitial ==
    [jobId     |-> "",
     itinerary |-> "null",
     loading   |-> FALSE,
     error     |-> "",
     polling   |-> FALSE,
     timers    |-> <<>>,
     polls     |-> 0,
     checks    |-> 0,
     event     |-> [handler |-> "none", reply |-> NoReply]]

\* startPolling up to its return (App.svelte:43-44, 67): the flag is set
\* and the first poll is scheduled
startPolling(pg) ==
    [pg EXCEPT !.polling = TRUE, !.timers = Append(@, PollInterval)]

\* data.status === 'processing' && !polling  (App.svelte:30)
StartsPollingAlways(reply, polling) == reply.status = "processing"

StartsPolling(reply, polling) == reply.status = "processing" /\ ~polling

\* data.status === 'completed' || data.status === 'failed'  (App.svelte:55)
IsTerminalCompletedOnly(status) == status = "completed"

IsTerminal(status) == status = "completed" \/ status = "failed"

\* the user types a Job ID and presses Enter or the button; checkStatus
\* runs up to its await (App.svelte:13-24)
CheckStatus ==
    \E text \in JobIdTexts :
        /\ page.checks < MaxChecks
        /\ page' =
            IF Trim(text) = ""
            THEN [page EXCEPT !.jobId = text,
                              !.error = "Please enter a Job ID",
                              !.event = [handler |-> "check", reply |-> NoReply]]
            ELSE [page EXCEPT !.jobId = text,
                              !.loading = TRUE,
                              !.error = "",
                              !.itinerary = "null",
                              !.checks = @ + 1,
                              !.event = [handler |-> "check", reply |-> NoReply]]
        /\ UNCHANGED backend

\* checkStatus after its await (App.svelte:25-40)
AfterCheck(pg, reply) ==
    LET seen ==
            IF reply.kind = "throw"
            THEN [pg EXCEPT !.error = "Network error. Please try again."]
            ELSE IF reply.ok
            THEN IF StartsPolling(reply, pg.polling)
                 THEN startPolling([pg EXCEPT !.itinerary = reply.status])
                 ELSE [pg EXCEPT !.itinerary = reply.status]
            ELSE [pg EXCEPT !.error = reply.error]
    IN  [seen EXCEPT !.loading = FALSE]

CheckReply ==
    /\ page.checks > 0
    /\ \E reply \in Replies :
        page' = [AfterCheck(page, reply) EXCEPT
                    !.checks = @ - 1,
                    !.event = [handler |-> "check_reply", reply |-> reply]]
    /\ UNCHANGED backend

\* a poll timer fires: poll runs up to its await (App.svelte:45-49)
TimerFires ==
    /\ page.timers # <<>>
    /\ page' =
        IF ~page.polling
        THEN [page EXCEPT !.timers = Tail(@),
                          !.event = [handler |-> "timer", reply |-> NoReply]]
        ELSE [page EXCEPT !.timers = Tail(@),
                          !.polls = @ + 1,
                          !.event = [handler |-> "timer", reply |-> NoReply]]
    /\ UNCHANGED backend

\* poll after its await (App.svelte:50-64); a response that is not ok
\* leaves the page as it is
AfterPoll(pg, reply) ==
    IF reply.kind = "throw"
    THEN [pg EXCEPT !.polling = FALSE]
    ELSE IF reply.ok
    THEN IF IsTerminal(reply.status)
         THEN [pg EXCEPT !.itinerary = reply.status, !.polling = FALSE]
         ELSE [pg EXCEPT !.itinerary = reply.status,
                         !.timers = Append(@, PollInterval)]
    ELSE pg

PollReply ==
    /\ page.polls > 0
    /\ \E reply \in Replies :
        page' = [AfterPoll(page, reply) EXCEPT
                    !.polls = @ - 1,
                    !.event = [handler |-> "poll_reply", reply |-> reply]]
    /\ UNCHANGED backend

\* what is recorded of a response, and how many requests a run accepts
Observed(r) == IF observe THEN r ELSE NoRequest
JobLimit    == IF observe THEN MaxObserved ELSE MaxJobs

Init ==
    /\ store = [id \in JobIds |-> NoDoc]
    /\ pipes = <<>>
    /\ resp  = NoRequest
    /\ observe = FALSE
    /\ polled = {}
    /\ page = PageInitial

\* the same system, with the response of every request recorded
InitRouter ==
    /\ store = [id \in JobIds |-> NoDoc]
    /\ pipes = <<>>
    /\ resp  = NoRequest
    /\ observe = TRUE
    /\ polled = {}
    /\ page = PageInitial

\* ------------------------------------------------------- POST /generate
\* what can throw while the handler runs: request.json() (199), the store
\* client's initialisation (227-231), the initial set (233), and lines
\* 136-140 of the processItinerary call
GenerateFaults == {"none", "parse", "init", "set", "pipe_init"}

\* how the handler of index.js:198-255 ends
GenerateOutcome(fault, body) ==
    IF fault = "parse" THEN "parse_error"
    ELSE IF ThrowsOnAccess(body) THEN "type_error"
    ELSE IF MissingFields(body) THEN "missing_fields"
    ELSE IF BadDuration(body) THEN "bad_duration"
    ELSE IF fault = "init" THEN "init_error"
    ELSE IF fault = "set" THEN "set_error"
    ELSE "accepted"

\* (variant: the catch clause answers with the message of what was thrown)
GenerateRejectionLeaks(outcome, input) ==
    CASE outcome = "missing_fields" ->
            Response("generate", input, BadRequestStatus,
                ErrorBody("Missing required fields: destination and durationDays"),
                outcome)
      [] outcome = "bad_duration" ->
            Response("generate", input, BadRequestStatus,
                ErrorBody("durationDays must be a number between 1 and 30"),
                outcome)
      [] OTHER ->
            Response("generate", input, InternalErrorStatus,
                ErrorBody(outcome), outcome)

\* the response of a request that is not accepted (index.js:202-222, 341-352)
GenerateRejection(outcome, input) ==
    CASE outcome = "missing_fields" ->
            Response("generate", input, BadRequestStatus,
                ErrorBody("Missing required fields: destination and durationDays"),
                outcome)
      [] outcome = "bad_duration" ->
            Response("generate", input, BadRequestStatus,
                ErrorBody("durationDays must be a number between 1 and 30"),
                outcome)
      [] OTHER ->
            Response("generate", input, InternalErrorStatus,
                ErrorBody("Internal server error"), outcome)

\* (variant: processItinerary is awaited, so what it throws reaches the
\* handler's catch clause)
GenerateAcceptedAwaited(jobId, input, fault) ==
    IF fault = "pipe_init"
    THEN Response("generate", input, InternalErrorStatus,
            ErrorBody("Internal server error"), fault)
    ELSE Response("generate", input, AcceptedStatus,
            [jobId |-> jobId, message |-> "Itinerary generation started"], fault)

\* the response returned after ctx.waitUntil (index.js:245-254); the promise
\* of processItinerary is not awaited, so its rejection does not reach here
GenerateAccepted(jobId, input, fault) ==
    Response("generate", input, AcceptedStatus,
        [jobId |-> jobId, message |-> "Itinerary generation started"], fault)

\* A request that is not accepted changes nothing but resp: in a run that
\* does not record resp it is a stuttering step.
Generate ==
    \E fault \in GenerateFaults, body \in Bodies :
        LET outcome == GenerateOutcome(fault, body)
            input   == IF fault = "parse" THEN Undefined ELSE body
            p       == Len(pipes) + 1
        IN  IF outcome = "accepted"
            THEN /\ p <= JobLimit
                 /\ \E now \in Times, rnd \in Rands :
                      LET jobId  == generateJobId(now, rnd)
                          answer == GenerateAccepted(jobId, input, fault)
                      IN  /\ store' = Set(store, jobId,
                                          InitialRecord(body, <<p, "set">>))
                          /\ pipes' = Append(pipes,
                                [NewPipe(jobId, body, fault # "pipe_init")
                                    EXCEPT !.http = answer.status])
                          /\ resp'  = Observed(answer)
                          /\ polled' = polled \ {jobId}
                 /\ UNCHANGED observe
            ELSE /\ observe
                 /\ resp' = GenerateRejection(outcome, input)
                 /\ UNCHANGED <<store, pipes, observe, polled>>

\* ---------------------------------------------------- GET /status/{jobId}
\* JSON.stringify(docSnap.data()): a timestamp is written as an object of
\* its seconds, a field that is undefined is left out, the rest as it is
Serialize(v) ==
    IF v.type = "timestamp" THEN [type |-> "object", seconds |-> v.t] ELSE v

JSONstringify(doc) ==
    [doc EXCEPT !.createdAt = Serialize(@), !.completedAt = Serialize(@),
                !.updatedAt = Serialize(@)]

\* index.js:257-313
StatusFaults == {"none", "init", "get"}

\* (variant: docSnap.exists is not tested)
StatusResponseNoExistsCheck(seg, fault, st) ==
    IF seg = EmptySegment
    THEN Response("status", seg, BadRequestStatus,
            ErrorBody("Job ID is required"), "no_id")
    ELSE IF fault # "none"
    THEN Response("status", seg, InternalErrorStatus,
            ErrorBody("Failed to fetch job status"), "store_error")
    ELSE IF st[seg] = NoDoc
    THEN Response("status", seg, OkStatus, Undefined, "none")
    ELSE Response("status", seg, OkStatus, JSONstringify(st[seg]), "none")

StatusResponse(seg, fault, st) ==
    IF seg = EmptySegment
    THEN Response("status", seg, BadRequestStatus,
            ErrorBody("Job ID is required"), "no_id")
    ELSE IF fault # "none"
    THEN Response("status", seg, InternalErrorStatus,
            ErrorBody("Failed to fetch job status"), "store_error")
    ELSE IF st[seg] = NoDoc
    THEN Response("status", seg, NotFoundStatus,
            ErrorBody("Job not found"), "none")
    ELSE Response("status", seg, OkStatus, JSONstringify(st[seg]), "none")

\* the calls of docRef.get() the handler makes (index.js:280): none when it
\* returns at line 261 or when lines 273-277 throw
StatusReads(seg, fault) ==
    IF seg = EmptySegment \/ fault = "init" THEN 0 ELSE 1

\* the request names an accepted job, and is the first to do so since the
\* job's 202 response
NamesJob(seg) == \E p \in 1..Len(pipes) : pipes[p].jobId = seg
FirstPoll(seg) == NamesJob(seg) /\ seg \notin polled

\* (variant: a status read stamps the record it returns)
StatusTouches ==
    \E seg \in {EmptySegment} \cup JobIds, fault \in StatusFaults :
        /\ resp' = Observed([StatusResponse(seg, fault, store)
                                EXCEPT !.reads = StatusReads(seg, fault),
                                       !.first = FirstPoll(seg)])
        /\ polled' = IF observe /\ NamesJob(seg) THEN polled \cup {seg} ELSE polled
        /\ store' = IF seg # EmptySegment /\ fault = "none" /\ store[seg] # NoDoc
                    THEN Update(store, seg, [updatedAt |-> Timestamp(<<0, "read">>)])
                    ELSE store
        /\ UNCHANGED <<pipes, observe>>

Status ==
    \E seg \in {EmptySegment} \cup JobIds, fault \in StatusFaults :
        /\ resp' = Observed([StatusResponse(seg, fault, store)
                                EXCEPT !.reads = StatusReads(seg, fault),
                                       !.first = FirstPoll(seg)])
        /\ polled' = IF observe /\ NamesJob(seg) THEN polled \cup {seg} ELSE polled
        /\ UNCHANGED <<store, pipes, observe>>

\* ------------------------------------------------- the other requests
\* the paths a request can name
Paths == {"/generate", "/status/job_1_1", "/", "/unknown"}

\* new Response(null, {status: 200, headers}) of index.js:179-186
OptionsResponse(path) ==
    [route |-> "options", input |-> Str(path), status |-> OkStatus,
     body |-> Null, fault |-> "none", headers |-> PreflightHeaders,
     reads |-> 0, first |-> FALSE]

\* an OPTIONS request is answered before the router looks at the path
\* (index.js:178-187)
Options ==
    \E path \in Paths :
        /\ resp' = Observed(OptionsResponse(path))
        /\ UNCHANGED <<store, pipes, observe, polled>>

\* GET / (index.js:315-329)
Root ==
    /\ resp' = Observed(Response("root", Str("/"), OkStatus,
                    [message |-> "AI Itinerary Generator API"], "none"))
    /\ UNCHANGED <<store, pipes, observe, polled>>

\* every other method and path (index.js:331-339)
Unknown ==
    /\ resp' = Observed(Response("unknown", Str("/unknown"), NotFoundStatus,
                    ErrorBody("Endpoint not found"), "none"))
    /\ UNCHANGED <<store, pipes, observe, polled>>

\* ------------------------------------------------------ processItinerary
Pipes == 1..Len(pipes)

\* the patch of index.js:143-146
ProcessingPatch(w) == [status |-> "processing", updatedAt |-> Timestamp(w)]

\* itineraryData of index.js:151-159; the two timestamps are resolved by the
\* store when the document is written
CompletedData(destination, durationDays, aiResponse) ==
    [status       |-> "completed",
     destination  |-> destination,
     durationDays |-> durationDays,
     itinerary    |-> aiResponse.itinerary,
     error        |-> Null]

\* validatedData as the store writes it (index.js:162)
CompletedPatch(data, w) ==
    [status       |-> data.status,
     destination  |-> data.destination,
     durationDays |-> data.durationDays,
     createdAt    |-> Timestamp(w),
     completedAt  |-> Timestamp(w),
     itinerary    |-> data.itinerary.items,
     error        |-> data.error]

\* the patch of the catch block (index.js:168-172)
FailedPatch(message, w) ==
    [status |-> "failed", completedAt |-> Timestamp(w), error |-> Str(message)]

\* (variant: the last attempt is also followed by a delay)
GivesUpLate(attempt) == attempt > retries

\* the catch clause of callOpenAI (index.js:122-131): rethrow on the last
\* attempt, otherwise wait and go round the loop again
GivesUp(attempt) == attempt = retries

\* await update({status: 'processing', ...})  (index.js:143)
Mark(p) ==
    /\ pipes[p].pc = "mark"
    /\ \E ok \in BOOLEAN :
        IF ok
        THEN /\ store' = Update(store, pipes[p].jobId, ProcessingPatch(<<p, "mark">>))
             /\ pipes' = [pipes EXCEPT ![p].pc = "call", ![p].attempt = 1,
                            ![p].writes =
                                Append(@, ProcessingPatch(<<p, "mark">>).status)]
        ELSE /\ pipes' = [pipes EXCEPT ![p].pc = "catch", ![p].err = ErrStore,
                                       ![p].storeFailed = TRUE]
             /\ UNCHANGED store
    /\ resp' = NoRequest
    /\ UNCHANGED <<observe, polled>>

\* (variant: callOpenAI does not return on success and goes round its loop)
AfterCallLoops(pipe, aiResponse) ==
    IF aiResponse.type = "null"
    THEN [pipe EXCEPT !.pc = "catch", !.err = ErrTypeError]
    ELSE LET data == CompletedData(pipe.destination, pipe.durationDays, aiResponse)
         IN  IF ~ItinerarySchema(data)
             THEN [pipe EXCEPT !.pc = "catch", !.err = ErrZod]
             ELSE IF pipe.attempt < retries
             THEN [pipe EXCEPT !.pc = "call", !.attempt = @ + 1, !.data = data]
             ELSE [pipe EXCEPT !.pc = "write", !.data = data]

\* where processItinerary stands once callOpenAI has returned aiResponse
\* (index.js:151-161): reading .itinerary of null throws, a document that
\* does not match ItinerarySchema throws, otherwise the write is issued
AfterCall(pipe, aiResponse) ==
    IF aiResponse.type = "null"
    THEN [pipe EXCEPT !.pc = "catch", !.err = ErrTypeError]
    ELSE LET data == CompletedData(pipe.destination, pipe.durationDays, aiResponse)
         IN  IF ItinerarySchema(data)
             THEN [pipe EXCEPT !.pc = "write", !.data = data]
             ELSE [pipe EXCEPT !.pc = "catch", !.err = ErrZod]

\* (variant: the error rethrown is the one caught by the attempt before)
AfterFailureStale(pipe, message) ==
    IF GivesUp(pipe.attempt)
    THEN [pipe EXCEPT !.pc = "catch", !.err = pipe.caught]
    ELSE [pipe EXCEPT !.pc = "sleep", !.timer = BackoffDelay(pipe.attempt)]

\* where callOpenAI stands after a failed attempt (index.js:122-131)
AfterFailure(pipe, message) ==
    IF GivesUp(pipe.attempt)
    THEN [pipe EXCEPT !.pc = "catch", !.err = message]
    ELSE [pipe EXCEPT !.pc = "sleep", !.timer = BackoffDelay(pipe.attempt)]

\* (variant: callOpenAI validates the parsed content itself, inside its try)
CallValidates(p) ==
    /\ pipes[p].pc = "call"
    /\ \E outcome \in CallOutcomes :
        LET n == pipes[p].calls + 1
            invalid ==
                /\ outcome.type = "object"
                /\ ~ItinerarySchema(CompletedData(pipes[p].destination,
                                        pipes[p].durationDays, outcome))
        IN  pipes' = [pipes EXCEPT ![p] =
                IF outcome.type = "error"
                THEN [AfterFailure([@ EXCEPT !.calls = n], outcome.message)
                        EXCEPT !.caught = outcome.message]
                ELSE IF invalid
                THEN [AfterFailure([@ EXCEPT !.calls = n], ErrZod)
                        EXCEPT !.caught = ErrZod]
                ELSE AfterCall([@ EXCEPT !.calls = n, !.okAt = n], outcome)]
    /\ resp' = NoRequest
    /\ UNCHANGED <<observe, polled>>
    /\ UNCHANGED store

\* one attempt of callOpenAI: the request of index.js:79 and what follows it
Call(p) ==
    /\ pipes[p].pc = "call"
    /\ \E outcome \in CallOutcomes :
        LET n == pipes[p].calls + 1
        IN  pipes' = [pipes EXCEPT ![p] =
                IF outcome.type = "error"
                THEN [AfterFailure([@ EXCEPT !.calls = n], outcome.message)
                        EXCEPT !.caught = outcome.message]
                ELSE AfterCall([@ EXCEPT !.calls = n, !.okAt = n], outcome)]
    /\ resp' = NoRequest
    /\ UNCHANGED <<observe, polled>>
    /\ UNCHANGED store

\* the timer of index.js:130 fires and the loop starts its next attempt; the
\* error caught at line 122 goes out of scope with the catch clause
Backoff(p) ==
    /\ pipes[p].pc = "sleep"
    /\ pipes' = [pipes EXCEPT ![p].pc = "call",
                              ![p].attempt = @ + 1,
                              ![p].delays = Append(@, pipes[p].timer),
                              ![p].timer = 0,
                              ![p].caught = ""]
    /\ resp' = NoRequest
    /\ UNCHANGED <<observe, polled>>
    /\ UNCHANGED store

\* await update(validatedData)  (index.js:162)
WriteCompleted(p) ==
    /\ pipes[p].pc = "write"
    /\ \E ok \in BOOLEAN :
        IF ok
        THEN /\ store' = Update(store, pipes[p].jobId,
                                CompletedPatch(pipes[p].data, <<p, "completed">>))
             /\ pipes' = [pipes EXCEPT ![p].pc = "done",
                            ![p].writes = Append(@,
                                CompletedPatch(pipes[p].data, <<p, "completed">>).status)]
        ELSE /\ pipes' = [pipes EXCEPT ![p].pc = "catch", ![p].err = ErrStore,
                                       ![p].storeFailed = TRUE]
             /\ UNCHANGED store
    /\ resp' = NoRequest
    /\ UNCHANGED <<observe, polled>>

\* await update({status: 'failed', ...}) in the catch block (index.js:168);
\* when it throws nothing catches it and the promise is rejected
WriteFailed(p) ==
    /\ pipes[p].pc = "catch"
    /\ \E ok \in BOOLEAN :
        IF ok
        THEN /\ store' = Update(store, pipes[p].jobId,
                                FailedPatch(pipes[p].err, <<p, "failed">>))
             /\ pipes' = [pipes EXCEPT ![p].pc = "done",
                            ![p].writes = Append(@,
                                FailedPatch(pipes[p].err, <<p, "failed">>).status)]
        ELSE /\ pipes' = [pipes EXCEPT ![p].pc = "rejected",
                                       ![p].storeFailed = TRUE]
             /\ UNCHANGED store
    /\ resp' = NoRequest
    /\ UNCHANGED <<observe, polled>>

\* the worker; the status page is left out of these runs
Next ==
    \/ Generate /\ UNCHANGED page
    \/ Status /\ UNCHANGED page
    \/ Options /\ UNCHANGED page
    \/ Root /\ UNCHANGED page
    \/ Unknown /\ UNCHANGED page
    \/ \E p \in Pipes : Mark(p) /\ UNCHANGED page
    \/ \E p \in Pipes : Call(p) /\ UNCHANGED page
    \/ \E p \in Pipes : Backoff(p) /\ UNCHANGED page
    \/ \E p \in Pipes : WriteCompleted(p) /\ UNCHANGED page
    \/ \E p \in Pipes : WriteFailed(p) /\ UNCHANGED page

Spec == Init /\ [][Next]_vars

SpecRouter == InitRouter /\ [][Next]_vars

\* the status page on its own, against every reply it can be given
NextPage ==
    \/ CheckStatus
    \/ CheckReply
    \/ TimerFires
    \/ PollReply

SpecPage == Init /\ [][NextPage]_vars

\* ================================================================= claims
Terminal == {"completed", "failed"}
HasDoc(id) == store[id] # NoDoc
Last(seq) == seq[Len(seq)]

\* the run has left processItinerary: it returned, or its promise was rejected
Ended(pipe) == pipe.pc \in {"done", "rejected"}

\* no other request has drawn the identifier of run p
Alone(p) == \A q \in Pipes : q # p => pipes[q].jobId # pipes[p].jobId

\* ------------------------------------------------------------------- C1
\* C1 (as stated): once a job's record has status completed or failed, no
\* later step changes any field of that record; in particular a terminal
\* status never returns to processing.
C1_TerminalRecordNeverChanges ==
    [][\A id \in JobIds :
        (HasDoc(id) /\ store[id].status \in Terminal) => store'[id] = store[id]]_vars

\* ------------------------------------------------------------------- C2
\* the run has made three calls to the generation service and all failed
ThreeCallsFailed(pipe) == pipe.calls = 3 /\ pipe.okAt = 0

\* C2 (as stated): when three consecutive calls fail, the backoff delays of
\* 2, 4 and 8 seconds have all been applied before the pipeline gives up.
C2_DelaysTwoFourEight ==
    \A p \in Pipes :
        ThreeCallsFailed(pipes[p]) => pipes[p].delays = <<2000, 4000, 8000>>

\* C2 (amended): when three consecutive calls fail, the pipeline has given
\* up at once: it is in or past the catch block with no timer pending and no
\* fourth call, the delays applied are 2 and 4 seconds only, and the
\* terminal write it makes, once the store accepts it, is the failed one.
C2_GivesUpAfterTwoDelays ==
    \A p \in Pipes :
        ThreeCallsFailed(pipes[p]) =>
            /\ pipes[p].pc \in {"catch", "done", "rejected"}
            /\ pipes[p].timer = 0
            /\ pipes[p].delays = <<2000, 4000>>
            /\ pipes[p].pc = "done" => Last(pipes[p].writes) = "failed"

C2_Witness ==
    \E p \in Pipes : ThreeCallsFailed(pipes[p]) /\ pipes[p].pc = "done"

\* ------------------------------------------------------------------- C3
\* the first call failed and the second returned content that passed
\* ItinerarySchema (data is set only then)
SecondCallValid(pipe) == pipe.okAt = 2 /\ pipe.data # NoData

\* C3 (as stated): when the first call fails and the second succeeds with
\* content that passes validation, the job terminates as completed (and no
\* third call is made): a run that has ended has written completed last.
C3_SecondSuccessCompletes ==
    \A p \in Pipes :
        (SecondCallValid(pipes[p]) /\ Ended(pipes[p])) =>
            (pipes[p].writes # <<>> /\ Last(pipes[p].writes) = "completed")

\* C3 (amended): in that case no third call is made and the pipeline goes on
\* to the completed write; the job terminates as completed when the store
\* accepts that write (its record then reads completed, unless another
\* request drew the same identifier). When the store rejects the write the
\* catch block runs instead, and the run ends having written failed or
\* nothing more.
C3_NoThirdCallThenCompletedWrite ==
    \A p \in Pipes :
        SecondCallValid(pipes[p]) =>
            /\ pipes[p].calls = 2
            /\ pipes[p].pc \in {"write", "done", "catch", "rejected"}
            /\ pipes[p].pc = "write" => ~pipes[p].storeFailed
            /\ (Ended(pipes[p]) /\ ~pipes[p].storeFailed) =>
                    Last(pipes[p].writes) = "completed"
            /\ (Ended(pipes[p]) /\ pipes[p].storeFailed) =>
                    Last(pipes[p].writes) # "completed"
            /\ (Ended(pipes[p]) /\ ~pipes[p].storeFailed /\ Alone(p)) =>
                    store[pipes[p].jobId].status = "completed"

C3_Witness ==
    \E p \in Pipes :
        /\ SecondCallValid(pipes[p])
        /\ pipes[p].pc = "done"
        /\ Last(pipes[p].writes) = "completed"
        /\ store[pipes[p].jobId].status = "completed"

\* ------------------------------------------------------------------- C4
NonEmptyString(v) == v.type = "string" /\ v.str # ""

WholeNumber(v, n) == v.type = "number" /\ v.int = n /\ v.frac = 0

ThreeFilledActivities(day) ==
    /\ Len(day.activities) = 3
    /\ \A i \in 1..3 :
        /\ NonEmptyString(day.activities[i].time)
        /\ NonEmptyString(day.activities[i].description)
        /\ NonEmptyString(day.activities[i].location)

\* C4 (as stated): every record with status completed has as many days as
\* its durationDays, each day with exactly 3 activities whose time,
\* description and location are non-empty.
C4_CompletedItineraryWellFormed ==
    \A id \in JobIds :
        (HasDoc(id) /\ store[id].status = "completed") =>
            /\ WholeNumber(store[id].durationDays, Len(store[id].itinerary))
            /\ \A d \in 1..Len(store[id].itinerary) :
                    ThreeFilledActivities(store[id].itinerary[d])

\* ------------------------------------------------------------------- C5
\* C5 (as stated): every record with status failed has a non-empty error
\* string and an empty itinerary.
C5_FailedRecordHasErrorOnly ==
    \A id \in JobIds :
        (HasDoc(id) /\ store[id].status = "failed") =>
            /\ NonEmptyString(store[id].error)
            /\ store[id].itinerary = <<>>

\* ------------------------------------------------------------------- C6
InRange1To30(n) ==
    n.type = "number" /\ n.int >= 1 /\ (n.int < 30 \/ (n.int = 30 /\ n.frac = 0))

ValidBody(b) ==
    b.type = "object" /\ NonEmptyString(b.destination) /\ InRange1To30(b.durationDays)

\* the request of this step is a GET /status/{jobId} for an accepted job
StatusOfAcceptedJob ==
    resp.route = "status" /\ \E p \in Pipes : pipes[p].jobId = resp.input

\* C6 (as stated): every POST /generate with a non-empty destination and a
\* durationDays in [1,30] is answered 202 with a non-empty jobId, and any
\* GET /status/{jobId} for an accepted job is answered 200 with a status.
C6_ValidRequestAlways202 ==
    /\ (resp.route = "generate" /\ ValidBody(resp.input)) =>
            (resp.status = 202 /\ resp.body.jobId # EmptySegment)
    /\ StatusOfAcceptedJob =>
            (resp.status = 200 /\ resp.body.status \in {"processing"} \cup Terminal)

\* C6 (amended): such a POST is answered 202 with a non-empty jobId, the
\* record being in the store when the response is returned, unless the
\* store client cannot be initialised or the initial write throws, and then
\* it is answered 500; the record of every accepted job is in the store, and
\* a GET /status/{jobId} for an accepted job is answered 200 with a status
\* field, or 500 when the read fails, never 404.
C6_AcceptedJobIsStored ==
    /\ (resp.route = "generate" /\ ValidBody(resp.input)) =>
            \/ /\ resp.status = 202
               /\ resp.body.jobId # EmptySegment
               /\ HasDoc(resp.body.jobId)
               /\ pipes # <<>> /\ Last(pipes).jobId = resp.body.jobId
            \/ /\ resp.status = 500
               /\ resp.fault \in {"init_error", "set_error"}
    /\ \A p \in Pipes : HasDoc(pipes[p].jobId)
    /\ StatusOfAcceptedJob =>
            \/ resp.status = 200 /\ resp.body.status \in {"processing"} \cup Terminal
            \/ resp.status = 500 /\ resp.fault = "store_error"

C6_Witness ==
    /\ StatusOfAcceptedJob
    /\ resp.status = 200
    /\ resp.body.status = "processing"

\* ------------------------------------------------------------------- C7
\* the body has no destination, or an empty one
LacksDestination(b) ==
    \/ b.type = "null"
    \/ b.type = "object" /\ b.destination.type = "undefined"
    \/ b.type = "object" /\ b.destination = Str("")

\* durationDays is 0, below 1, above 30 or not a number
DurationOutOfRange(b) == b.type = "object" /\ ~InRange1To30(b.durationDays)

\* C7 (as stated): a POST /generate whose body has a missing or empty
\* destination, or a durationDays that is 0, below 1, above 30 or not a
\* number, is answered 400 with an error string.
C7_InvalidBodyIs400 ==
    (/\ resp.route = "generate"
     /\ resp.fault # "parse_error"
     /\ (LacksDestination(resp.input) \/ DurationOutOfRange(resp.input))) =>
        resp.status = 400

\* ------------------------------------------------------------------- C8
\* a field of the response body is the stored field, a timestamp being
\* written as the object of its seconds
SameField(b, v) ==
    IF v.type = "timestamp"
    THEN b.type = "object" /\ b.seconds = v.t
    ELSE b = v

BodyIsRecord(b, doc) ==
    /\ b.status = doc.status
    /\ b.destination = doc.destination
    /\ b.durationDays = doc.durationDays
    /\ b.itinerary = doc.itinerary
    /\ b.error = doc.error
    /\ SameField(b.createdAt, doc.createdAt)
    /\ SameField(b.completedAt, doc.completedAt)
    /\ SameField(b.updatedAt, doc.updatedAt)

\* C8 (as stated): GET /status/{jobId} is answered 400 when the identifier
\* segment is empty, 404 {error: "Job not found"} when no record exists, and
\* otherwise 200 with the stored record as it is at the time of the read.
C8_StatusThreeWay ==
    resp.route = "status" =>
        IF resp.input = EmptySegment THEN resp.status = 400
        ELSE IF ~HasDoc(resp.input)
        THEN resp.status = 404 /\ resp.body = [error |-> "Job not found"]
        ELSE resp.status = 200 /\ BodyIsRecord(resp.body, store[resp.input])

\* C8 (amended): the same three cases when the store client is initialised
\* and the read returns; when either throws, the answer to a request with a
\* non-empty identifier is 500 {error: "Failed to fetch job status"},
\* whether or not a record exists.
C8_StatusFourWay ==
    resp.route = "status" =>
        IF resp.input = EmptySegment
        THEN resp.status = 400 /\ resp.body = [error |-> "Job ID is required"]
        ELSE IF resp.fault = "store_error"
        THEN resp.status = 500 /\ resp.body = [error |-> "Failed to fetch job status"]
        ELSE IF ~HasDoc(resp.input)
        THEN resp.status = 404 /\ resp.body = [error |-> "Job not found"]
        ELSE resp.status = 200 /\ BodyIsRecord(resp.body, store[resp.input])

C8_Witness ==
    /\ resp.route = "status"
    /\ resp.status = 200
    /\ resp.body.status = "completed"
    /\ resp.body.itinerary # <<>>

\* ------------------------------------------------------------------- C9
\* C9 (as stated, for a run that can take no further step): every accepted
\* job whose record-store writes all succeeded reaches completed or failed;
\* its run has written a terminal status by the time it has ended.
C9_EndedRunWroteTerminal ==
    \A p \in Pipes :
        (Ended(pipes[p]) /\ ~pipes[p].storeFailed) =>
            (pipes[p].writes # <<>> /\ Last(pipes[p].writes) \in Terminal)

\* ------------------------------------------------------------------ C10
\* the run failed: it reached the catch block, or never entered the try
Failed(pipe) == pipe.pc \in {"catch", "rejected"} \/ pipe.err # ""

\* C10: the response to an accepted POST /generate is 202 whatever becomes
\* of the pipeline: also when processItinerary throws before its first
\* await, and for every run that has failed since; a failure that is
\* recorded shows as the record's failed status and error field.
C10_AcceptedIs202WhateverThePipeline ==
    /\ (resp.route = "generate" /\ ValidBody(resp.input)
            /\ resp.fault \in {"none", "pipe_init"}) => resp.status = 202
    /\ \A p \in Pipes : pipes[p].http = 202
    /\ \A p \in Pipes :
        (pipes[p].pc = "done" /\ Last(pipes[p].writes) = "failed" /\ Alone(p)) =>
            /\ store[pipes[p].jobId].status = "failed"
            /\ store[pipes[p].jobId].error = Str(pipes[p].err)

C10_Witness ==
    \E p \in Pipes :
        /\ Failed(pipes[p])
        /\ pipes[p].pc = "done"
        /\ pipes[p].http = 202
        /\ store[pipes[p].jobId].status = "failed"

\* ------------------------------------------------------------------ C11
\* a document with the fields of a patch replaced
Patched(doc, patch) ==
    [f \in DOMAIN doc |-> IF f \in DOMAIN patch THEN patch[f] ELSE doc[f]]

\* the patch run p wrote when it wrote this status
PatchOf(p, status) ==
    CASE status = "processing" -> ProcessingPatch(<<p, "mark">>)
      [] status = "completed"  -> CompletedPatch(pipes[p].data, <<p, "completed">>)
      [] status = "failed"     -> FailedPatch(pipes[p].err, <<p, "failed">>)

\* the record of run p had it run alone: the initial record of its own
\* request with the first n writes of the run applied in order
RECURSIVE RecordAlone(_, _)
RecordAlone(p, n) ==
    IF n = 0
    THEN InitialRecord(Body(pipes[p].destination, pipes[p].durationDays),
                       <<p, "set">>)
    ELSE Patched(RecordAlone(p, n - 1), PatchOf(p, pipes[p].writes[n]))

\* the step is taken by run p: it is created, or its position changes
StepOf(p) ==
    \/ p = Len(pipes) + 1 /\ Len(pipes') = p
    \/ p \in Pipes /\ pipes'[p] # pipes[p]

\* C11: for two jobs with different identifiers, under every interleaving
\* of their pipelines, a write made for one job leaves the record of the
\* other unchanged, and each job's record, its final one included, is the
\* one its own request, its own generation-service responses and its own
\* writes give it when it runs alone.
C11_JobsDoNotInterfere ==
    /\ [][\A p \in 1..MaxJobs :
            StepOf(p) =>
                \A id \in JobIds \ {pipes'[p].jobId} : store'[id] = store[id]]_vars
    /\ [](\A p \in Pipes :
            Alone(p) =>
                store[pipes[p].jobId] = RecordAlone(p, Len(pipes[p].writes)))

C11_Witness ==
    /\ Len(pipes) = 2
    /\ pipes[1].jobId # pipes[2].jobId
    /\ pipes[1].pc = "done" /\ pipes[2].pc = "done"
    /\ store[pipes[1].jobId].status = "completed"
    /\ store[pipes[1].jobId].itinerary # <<>>
    /\ store[pipes[2].jobId].status = "failed"
    /\ Len(pipes[2].writes) = 2
    /\ store[pipes[2].jobId] = RecordAlone(2, 2)

\* ------------------------------------------------------------------ C12
\* the handling of the request of this step failed internally: the body
\* could not be parsed, the store failed while the job was created, or the
\* store failed while the status was read
CreateFailed == resp.route = "generate" /\ resp.fault \in {"init_error", "set_error"}
ParseFailed  == resp.route = "generate" /\ resp.fault = "parse_error"
ReadFailed   == resp.route = "status" /\ resp.fault = "store_error"

\* C12 (as stated): whenever the handling of a request fails internally
\* (unparsable body, store failure while creating a job, store failure
\* while reading a status), the response is 500 {error: "Internal server
\* error"}.
C12_InternalFailureIs500Generic ==
    (ParseFailed \/ CreateFailed \/ ReadFailed) =>
        (resp.status = 500 /\ resp.body = [error |-> "Internal server error"])

\* C12 (amended): an unparsable body and a store failure while creating a
\* job are answered 500 {error: "Internal server error"}, nothing having
\* been written; a store failure while reading a status is answered 500
\* {error: "Failed to fetch job status"}.
C12_InternalFailureIs500 ==
    /\ []((ParseFailed \/ CreateFailed) =>
            (resp.status = 500 /\ resp.body = [error |-> "Internal server error"]))
    /\ [](ReadFailed =>
            (resp.status = 500 /\ resp.body = [error |-> "Failed to fetch job status"]))
    /\ [][(ParseFailed \/ CreateFailed \/ ReadFailed)' =>
            (store' = store /\ pipes' = pipes)]_vars

C12_Witness == CreateFailed /\ resp.fault = "set_error" /\ resp.status = 500

\* ------------------------------------------------------------------ C13
\* the three CORS headers
CorsHeaderNames ==
    {"Access-Control-Allow-Origin", "Access-Control-Allow-Methods",
     "Access-Control-Allow-Headers"}

CarriesCors(r) ==
    /\ CorsHeaderNames \subseteq DOMAIN r.headers
    /\ r.headers["Access-Control-Allow-Origin"] = "*"
    /\ r.headers["Access-Control-Allow-Methods"] = "GET, POST, OPTIONS"
    /\ r.headers["Access-Control-Allow-Headers"] = "Content-Type"

\* C13: every response of the router (202, 200, 400, 404, 500) carries the
\* three CORS headers; an OPTIONS request on any path is answered 200 with
\* no body and those headers, and writes no record and starts no pipeline.
C13_CorsOnEveryResponse ==
    /\ [](resp.route # "none" =>
            (resp.status \in {202, 200, 400, 404, 500} /\ CarriesCors(resp)))
    /\ [](resp.route = "options" =>
            (resp.status = 200 /\ resp.body = Null /\ CarriesCors(resp)))
    /\ [][resp'.route = "options" => (store' = store /\ pipes' = pipes)]_vars

C13_Witness ==
    /\ resp.route = "options"
    /\ resp.input = Str("/generate")
    /\ pipes # <<>>
    /\ CarriesCors(resp)

\* ------------------------------------------------------------------ C14
\* C14 (as stated): for each accepted job the pipeline writes to the job's
\* record exactly twice, a first write that leaves the status processing
\* and then a single terminal write; a run that has ended has made exactly
\* these two writes, and no run makes more.
C14_ExactlyTwoWrites ==
    \A p \in Pipes :
        /\ Len(pipes[p].writes) <= 2
        /\ Ended(pipes[p]) =>
                pipes[p].writes \in {<<"processing", "completed">>,
                                     <<"processing", "failed">>}

\* ------------------------------------------------------------------ C15
\* C15: a GET /status/{jobId} request reads the store at most once (once
\* exactly when it answers 200 or 404, not at all when it answers 400) and
\* leaves the record store unchanged whatever its outcome: no record is
\* created, modified or deleted, and no pipeline is started.
C15_StatusLeavesStoreUnchanged ==
    /\ [][resp'.route = "status" => (store' = store /\ pipes' = pipes)]_vars
    /\ [](resp.route = "status" =>
            /\ resp.status \in {200, 400, 404, 500}
            /\ resp.reads <= 1
            /\ resp.status \in {200, 404} => resp.reads = 1
            /\ resp.status = 400 => resp.reads = 0)

C15_Witness ==
    /\ resp.route = "status"
    /\ resp.status = 200
    /\ resp.reads = 1
    /\ resp.body.status = "failed"
    /\ store[resp.input].status = "failed"

\* ------------------------------------------------------------------ C16
\* run p makes its failed write in this step
WritesFailed(p) == pipes[p].pc = "catch" /\ pipes'[p].pc = "done"

\* C16: for every job the pipeline makes at most 3 calls to the generation
\* service and none after a call has returned; when all 3 calls fail, the
\* error that reaches the catch block is the one of the third attempt, and
\* the failed write stores its message as the record's error.
C16_AtMostThreeCallsLastError ==
    /\ [](\A p \in Pipes :
            /\ pipes[p].calls <= 3
            /\ pipes[p].okAt # 0 => pipes[p].calls = pipes[p].okAt
            /\ ThreeCallsFailed(pipes[p]) => pipes[p].err = pipes[p].caught)
    /\ [][\A p \in Pipes :
            (ThreeCallsFailed(pipes[p]) /\ WritesFailed(p)) =>
                /\ store'[pipes[p].jobId].status = "failed"
                /\ store'[pipes[p].jobId].error = Str(pipes[p].caught)]_vars

C16_Witness ==
    \E p \in Pipes :
        /\ ThreeCallsFailed(pipes[p])
        /\ pipes[p].pc = "done"
        /\ pipes[p].caught = ErrNoContent
        /\ store[pipes[p].jobId].error = Str(ErrNoContent)

\* ------------------------------------------------------------------ C17
\* a call of run p returned content that parsed as JSON and the content did
\* not match the schema: ItinerarySchema.parse threw, or reading .itinerary
\* of the parsed null did
SchemaMismatch(pipe) == pipe.err \in {ErrZod, ErrTypeError}

\* C17 (as stated): when a call returns content that parses as JSON but
\* does not match the schema, the job becomes failed without any further
\* call; only a non-success status, missing content and unparsable JSON
\* trigger a retry.
C17_MismatchFailsOnlyThreeRetry ==
    \A p \in Pipes :
        /\ SchemaMismatch(pipes[p]) => pipes[p].calls = pipes[p].okAt
        /\ (SchemaMismatch(pipes[p]) /\ Ended(pipes[p])) =>
                (pipes[p].writes # <<>> /\ Last(pipes[p].writes) = "failed")
        /\ pipes[p].pc = "sleep" =>
                pipes[p].caught \in {ErrHttp, ErrNoContent, ErrBadJson}

\* C17 (amended): in that case no further call is made, whatever the number
\* of attempts so far, and the pipeline goes to its catch block, whose
\* write sets the record to failed with the validation error when the
\* store accepts it (the run ends without it when the store rejects it).
\* A retry follows every error thrown inside callOpenAI: the three above
\* and a failure of the request itself; it never follows returned content.
C17_MismatchNotRetried ==
    /\ [](\A p \in Pipes :
            /\ SchemaMismatch(pipes[p]) =>
                    /\ pipes[p].okAt >= 1 /\ pipes[p].calls = pipes[p].okAt
                    /\ pipes[p].pc \in {"catch", "done", "rejected"}
                    /\ pipes[p].pc = "done" => Last(pipes[p].writes) = "failed"
                    /\ pipes[p].pc = "rejected" => pipes[p].storeFailed
            /\ pipes[p].pc = "sleep" =>
                    (pipes[p].caught \in CallErrors /\ pipes[p].okAt = 0))
    /\ [][\A p \in Pipes :
            (SchemaMismatch(pipes[p]) /\ WritesFailed(p)) =>
                /\ store'[pipes[p].jobId].status = "failed"
                /\ store'[pipes[p].jobId].error = Str(pipes[p].err)]_vars

C17_Witness ==
    \E p \in Pipes :
        /\ pipes[p].err = ErrZod
        /\ pipes[p].calls = 1
        /\ pipes[p].pc = "done"
        /\ store[pipes[p].jobId].status = "failed"
        /\ store[pipes[p].jobId].error = Str(ErrZod)

\* ------------------------------------------------------------------ C18
FieldsAgree(doc) ==
    /\ doc.completedAt = Null <=> doc.status = "processing"
    /\ doc.error # Null => doc.status = "failed"
    /\ doc.itinerary # <<>> => doc.status = "completed"

\* C18 (as stated): in every reachable state and for every job record,
\* completedAt is null exactly when the status is processing, error is
\* non-null only when the status is failed, and the itinerary is non-empty
\* only when the status is completed.
C18_RecordFieldsAgree ==
    \A id \in JobIds : HasDoc(id) => FieldsAgree(store[id])

\* ------------------------------------------------------------------ C19
\* the request of this step is the first GET /status/{jobId} since the 202
\* response of that job
FirstStatusOfJob == resp.route = "status" /\ resp.first

\* C19 (as stated): the first GET /status/{jobId} after the 202 response
\* reports status processing or completed, never failed.
C19_FirstStatusNeverFailed ==
    (FirstStatusOfJob /\ resp.status = 200) =>
        resp.body.status \in {"processing", "completed"}

\* C19 (amended): the first GET /status/{jobId} after the 202 response is
\* never answered 404: it reports the status processing, completed or
\* failed (failed only when a pipeline of that job has made its failed
\* write by then), or is answered 500 when the read fails.
C19_FirstStatusIsTheRecord ==
    FirstStatusOfJob =>
        \/ /\ resp.status = 200
           /\ resp.body.status \in {"processing", "completed", "failed"}
           /\ resp.body.status = store[resp.input].status
           /\ resp.body.status = "failed" =>
                \E p \in Pipes :
                    /\ pipes[p].jobId = resp.input
                    /\ pipes[p].pc = "done"
                    /\ Last(pipes[p].writes) = "failed"
        \/ /\ resp.status = 500
           /\ resp.fault = "store_error"

C19_Witness ==
    /\ FirstStatusOfJob
    /\ resp.status = 200
    /\ resp.body.status = "failed"
    /\ \E p \in Pipes : pipes[p].jobId = resp.input /\ pipes[p].calls = 1

\* ------------------------------------------------------------------ C20
IntegerIn1To30(v) ==
    v.type = "number" /\ v.frac = 0 /\ v.int >= 1 /\ v.int <= 30

\* C20 (as stated): every job record written to the store has a
\* durationDays that is an integer between 1 and 30 inclusive.
C20_DurationIsIntegerInRange ==
    \A id \in JobIds : HasDoc(id) => IntegerIn1To30(store[id].durationDays)

\* ------------------------------------------------------------------ C21
\* C21 (as stated): the pipeline's writes leave createdAt, destination and
\* durationDays as they were set at creation: the createdAt of a completed
\* or failed record is the timestamp of the initial write of POST /generate
\* (here for a job whose identifier no other request has drawn).
C21_CreationFieldsKept ==
    \A p \in Pipes :
        (Alone(p) /\ store[pipes[p].jobId].status \in Terminal) =>
            /\ store[pipes[p].jobId].createdAt = Timestamp(<<p, "set">>)
            /\ store[pipes[p].jobId].destination = pipes[p].destination
            /\ store[pipes[p].jobId].durationDays = pipes[p].durationDays

\* ------------------------------------------------------------------ C22
\* a pipeline is started in this step
PipelineStarted == Len(pipes') > Len(pipes)

\* the POST /generate of this step was answered with an error
GenerateRefused == resp'.route = "generate" /\ resp'.status # 202

\* C22: for each POST /generate the pipeline is started at most once, only
\* after the initial record has been written, and with the jobId returned
\* in the 202 response; when the initial write fails the response is an
\* error, no pipeline is started and no generation-service call is made
\* for that request.
C22_PipelineStartedOnceAfterWrite ==
    /\ [][PipelineStarted =>
            /\ pipes' = Append(pipes, Last(pipes'))
            /\ resp'.route = "generate" /\ resp'.status = 202
            /\ Last(pipes').jobId = resp'.body.jobId
            /\ Last(pipes').calls = 0 /\ Last(pipes').writes = <<>>
            /\ store'[resp'.body.jobId] # NoDoc
            /\ store'[resp'.body.jobId].status = "processing"
            /\ store'[resp'.body.jobId].createdAt = Timestamp(<<Len(pipes'), "set">>)]_vars
    /\ [][GenerateRefused => (pipes' = pipes /\ store' = store)]_vars
    /\ [](resp.fault = "set_error" =>
            (resp.status = 500 /\ resp.body = [error |-> "Internal server error"]))

C22_Witness ==
    /\ resp.route = "generate" /\ resp.status = 202
    /\ pipes # <<>>
    /\ Last(pipes).jobId = resp.body.jobId
    /\ Last(pipes).pc = "mark"
    /\ store[resp.body.jobId].status = "processing"

\* ------------------------------------------------------------------ C23
\* the handler that ran last is poll, after its await, with this reply
Polled(statuses) ==
    /\ page.event.handler = "poll_reply"
    /\ page.event.reply.ok
    /\ page.event.reply.status \in statuses

\* the loop has stopped: flag false, no timer scheduled, no poll in flight
LoopStopped(pg) == ~pg.polling /\ pg.timers = <<>> /\ pg.polls = 0

\* C23: the polling loop, once started, requests the status again 2 seconds
\* after every response that reports processing, and stops (polling false,
\* no further timer) as soon as a response reports completed or failed;
\* once it has stopped the loop sends no further status request: a poll
\* request is sent only when a timer of the loop fires with the flag true.
C23_PollsEveryTwoSecondsUntilTerminal ==
    /\ [](\A i \in 1..Len(page.timers) : page.timers[i] = 2000)
    /\ [](Polled({"processing"}) =>
            (page.polling /\ page.timers = <<2000>> /\ page.polls = 0))
    /\ [](Polled(Terminal) => LoopStopped(page))
    /\ [][LoopStopped(page) => page'.polls = 0]_vars
    /\ [][page'.polls > page.polls =>
            (page.polling /\ page.timers # <<>> /\ page'.timers = Tail(page.timers))]_vars

C23_Witness ==
    /\ Polled({"failed"})
    /\ LoopStopped(page)
    /\ page.itinerary = "failed"

\* ------------------------------------------------------------------ C24
\* C24 (as stated): whenever the polling flag is true a poll is either
\* scheduled by a timer or in flight, for every sequence of status
\* responses (200, 404, 500, network error).
C24_PollingFlagHasPollPending ==
    page.polling => (page.timers # <<>> \/ page.polls > 0)

\* ------------------------------------------------------------------ C25
\* C25: for any interleaving of checkStatus calls, timer firings and status
\* responses at most one polling chain is active: there is never more than
\* one poll timer pending or poll request in flight at the same time, and
\* there is none when the polling flag is false.
C25_AtMostOnePollingChain ==
    /\ Len(page.timers) + page.polls <= 1
    /\ ~page.polling => (page.timers = <<>> /\ page.polls = 0)

C25_Witness ==
    /\ page.event.handler = "check_reply"
    /\ page.event.reply.status = "processing"
    /\ page.polling
    /\ page.polls = 1
    /\ page.checks = 1

====
